---- MODULE Spec2Model ----
(***************************************************************************)
(* dump_udp_ow_11.c: a producer thread reads UDP datagrams (or blocks from *)
(* stdin) into a double-mapped virtual ring buffer, a consumer thread      *)
(* writes the buffer to the current output file, and signal_handler()      *)
(* moves the shared stop level `stopped`.                                  *)
(*                                                                         *)
(* Threads are modelled by program counters (pcP, pcC, pcM) and one step   *)
(* per shared-memory access or critical section.  A critical section of   *)
(* region_mutex is one step; it keeps the mutex only when it ends in       *)
(* pthread_cond_wait.  signal_handler() is run in two contexts:            *)
(* "prod" (called by producer() for timeouts and progress reports) and     *)
(* "sig" (a signal delivered by the kernel, run on the main thread, which  *)
(* is blocked in pthread_join()).  One asynchronous handler runs at a      *)
(* time.                                                                   *)
(*                                                                         *)
(* Sizes are scaled down: the sets below keep the relations the program    *)
(* guarantees at start-up (from bufsize > 1e4 = MMAXLEN: every packet,    *)
(* with its size header, fits in an empty buffer; maxwrite and packlen are *)
(* independent; stdin needs --len and excludes --Start).  Print-only       *)
(* statistics (maxsize, sum_filllevel, n_filllevel, last_packs_..) and the *)
(* exit(1) paths of failed system calls are left out.                      *)
(***************************************************************************)
EXTENDS Integers, Sequences, FiniteSets, TLC

\* ---------------------------------------------------------------- bounds
\* datagrams / stdin blocks the environment delivers in one run
MaxPackets == 2
\* asynchronous signals the environment delivers in one run
MaxSignals == 1
\* idle timeouts occur while fewer than this many files have been opened,
\* and whenever the consumer waits or the stop level is 2
MaxFiles == 2
\* getpagesize(), scaled
PageSize == 2
\* bytes between two progress reports (1e9 in the source), scaled
ProgressBytes == 3

\* ------------------------------------------------------- program constants
SIGHUP  == 1
SIGINT  == 2
SIGALRM == 14
SIGTERM == 15

\* the ports of a UDP run
UdpPorts == <<4346>>
\* the port list that selects stdin
StdinPorts == <<0>>

\* The command lines tried: --ports, --len (0 = any length), --sizehead,
\* --bufsize, --maxwrite, --Maxfilesize (0 = no splitting), --Start; and
\* with them the sizes of the datagrams the senders emit during the run.
Cmd(ports, len, sizehead, bufsize, mwrite, mfilesize, start, sizes) ==
    [ports |-> ports, len |-> len, sizehead |-> sizehead, bufsize |-> bufsize,
     maxwrite |-> mwrite, maxfilesize |-> mfilesize, start |-> start,
     sizes |-> sizes, check |-> FALSE]

\* the same command line with --check (which fixes the packet length)
WithCheck(cmd) == [cmd EXCEPT !.check = TRUE]

UdpCmds ==
    { Cmd(UdpPorts, 3, FALSE, 3, 4, 0, FALSE, {2, 3}),
      Cmd(UdpPorts, 3, TRUE, 7, 4, 0, FALSE, {3}),
      Cmd(UdpPorts, 0, TRUE, 6, 3, 0, FALSE, {2}),
      Cmd(UdpPorts, 3, FALSE, 4, 4, 2, TRUE, {3}) }

\* the command line of the UDP runs checked for termination
FairUdpCmds == { Cmd(UdpPorts, 3, FALSE, 4, 4, 2, TRUE, {3}) }

\* the command line of the runs with the checks for beamformed data
CheckCmds == { WithCheck(Cmd(UdpPorts, 3, FALSE, 4, 4, 2, TRUE, {2, 3})) }

StdinCmds ==
    { Cmd(StdinPorts, 3, FALSE, 4, 4, 2, FALSE, {}),
      Cmd(StdinPorts, 3, TRUE, 5, 4, 0, FALSE, {}) }

NULL == -1

\* a byte: <<packet id, index in the stored record, value>>; packet 0 is the
\* zero-filled fresh mapping
ZeroByte == <<0, 0, 0>>

Abs(a) == IF a < 0 THEN -a ELSE a

RECURSIVE Flatten(_)
Flatten(ss) == IF ss = <<>> THEN <<>> ELSE Head(ss) \o Flatten(Tail(ss))

IsPrefix(s, t) == Len(s) <= Len(t) /\ SubSeq(t, 1, Len(s)) = s

\* ------------------------------------------------------------ ring buffer
\* init_vrb: promote to the next full page size
vrb_totsize(minsize) == ((minsize + PageSize - 1) \div PageSize) * PageSize

\* as vrb_poi_new, but without the test for space
vrb_poi_new_nocheck(vrb, thissize) == vrb.rear

\* vrb_poi_new: NULL when the packet does not fit, else the rear offset
vrb_poi_new(vrb, thissize) ==
    IF vrb.fillsize + thissize > vrb.totsize THEN NULL ELSE vrb.rear

\* as vrb_advance_new, but the rear offset is not wrapped
vrb_advance_new_nowrap(vrb, thissize) ==
    [vrb EXCEPT !.rear = vrb.rear + thissize,
                !.fillsize = vrb.fillsize + thissize]

vrb_advance_new(vrb, thissize) ==
    [vrb EXCEPT !.rear = (vrb.rear + thissize) % vrb.totsize,
                !.fillsize = vrb.fillsize + thissize]

\* vrb_poi_old: NULL when the buffer is empty, else the front offset
vrb_poi_old(vrb) == IF vrb.fillsize = 0 THEN NULL ELSE vrb.front

\* as vrb_advance_old, but the whole fill is released
vrb_advance_old_nowrap(vrb, thissize) ==
    [vrb EXCEPT !.front = vrb.front + thissize,
                !.fillsize = vrb.fillsize - thissize]

vrb_advance_old_all(vrb, thissize) ==
    [vrb EXCEPT !.front = (vrb.front + vrb.fillsize) % vrb.totsize,
                !.fillsize = 0]

vrb_advance_old(vrb, thissize) ==
    [vrb EXCEPT !.front = (vrb.front + thissize) % vrb.totsize,
                !.fillsize = vrb.fillsize - thissize]

\* as PhysAddr, but the second mapping starts one byte into the file
PhysAddr_offset(a, totsize) == IF a < totsize THEN a ELSE (a + 1) % totsize

\* The two mappings of init_vrb: offset a of the doubled range 0 .. 2*totsize-1
\* is byte a % totsize of the backing file.
PhysAddr(a, totsize) == a % totsize

\* memcpy (poi, src, n) into the doubled range
MemWrite(m, totsize, poi, src) ==
    [a \in DOMAIN m |->
        IF \E k \in 1 .. Len(src) : PhysAddr(poi + k - 1, totsize) = a
        THEN src[(CHOOSE k \in 1 .. Len(src) : PhysAddr(poi + k - 1, totsize) = a)]
        ELSE m[a]]

\* the n bytes at poi of the doubled range
MemRead(m, totsize, poi, n) == [k \in 1 .. n |-> m[PhysAddr(poi + k - 1, totsize)]]

\* ------------------------------------------------------------------ state
VARIABLES
    \* configuration, fixed by main() before the threads start
    packlen, do_blocklen, portnos, maxwrite, maxfilesize, stat_per_splitfile,
    beamformed_check,
    \* the argument of --Maxfilesize as given, in halves of a byte (0: not given)
    optarg,
    \* shared
    ringbuffer, mem, stopped, outf, region_mutex, stopped_mutex,
    waitData, waitSpace, producer_running, cancelReq,
    totlen, lasttotlen, packs_seen, packs_dropped, bytes_written,
    beamformed_first_packno, beamformed_last_packno, beamformed_good_packs,
    bytes_written_thisfile, filenumber, timestamp_last,
    \* producer(); header_lofar is the header of the packet in buff
    pcP, pret, pi, myallsocks, p_thissize, buff, header_lofar, newpoi,
    \* consumer()
    pcC, oldpoi, my_stopped, old_stopped, c_thissize,
    \* signal_handler(), per context; sigthread is the thread that runs the
    \* handler of a signal from outside
    hpc, hsig, hval, sigthread,
    \* main()
    pcM,
    \* environment
    PacketSizes, arrived, stdin_eof, nsignals,
    \* history: the files written so far and the bytes committed so far
    files, stream

cfgvars == <<packlen, do_blocklen, portnos, maxwrite, maxfilesize, stat_per_splitfile,
            beamformed_check, optarg,
            PacketSizes>>
vrbvars == <<ringbuffer, mem>>
bfvars == <<beamformed_first_packno, beamformed_last_packno, beamformed_good_packs>>
cntvars == <<totlen, lasttotlen, packs_seen, packs_dropped, bytes_written, bfvars>>
filevars == <<outf, bytes_written_thisfile, filenumber, timestamp_last, files>>
prodvars == <<pcP, pret, pi, myallsocks, p_thissize, buff, header_lofar, newpoi>>
consvars == <<pcC, oldpoi, my_stopped, old_stopped, c_thissize>>
consvars_rest == <<oldpoi, my_stopped, old_stopped, c_thissize>>
hdlvars == <<hpc, hsig, hval, sigthread>>
envvars == <<arrived, stdin_eof, nsignals>>
vars == <<cfgvars, vrbvars, cntvars, filevars, prodvars, consvars, hdlvars,
          envvars, stopped, region_mutex, stopped_mutex, waitData, waitSpace,
          producer_running, cancelReq, pcM, stream>>

nsock == Len(portnos)

\* nsock==1 && portnos[0]==0: then read stdin
IsStdin == nsock = 1 /\ portnos[1] = 0

\* the bytes of all files, in the order they were written
Written == Flatten([f \in 1 .. Len(files) |-> files[f].data])

\* ------------------------------------------------------------- start_file
\* the file start_file() opens: timestamp 0 re-uses the last one; the file
\* carries filenumber when numbering is on (filenumber >= 0)
NewFile(timestamp, fnum) ==
    [ts |-> IF timestamp # 0 THEN timestamp ELSE timestamp_last,
     num |-> fnum,
     data |-> <<>>]

\* as start_file, but the sequence number is not incremented
start_file_samenumber(timestamp, fnum) ==
    /\ timestamp_last' = (IF timestamp # 0 THEN timestamp ELSE timestamp_last)
    /\ files' = Append(files, NewFile(timestamp, fnum))
    /\ filenumber' = fnum
    /\ bytes_written_thisfile' = 0
    /\ outf' = Len(files) + 1

start_file(timestamp, fnum) ==
    /\ timestamp_last' = (IF timestamp # 0 THEN timestamp ELSE timestamp_last)
    /\ files' = Append(files, NewFile(timestamp, fnum))
    /\ filenumber' = (IF fnum >= 0 THEN fnum + 1 ELSE fnum)
    /\ bytes_written_thisfile' = 0
    /\ outf' = Len(files) + 1

\* realtime(): a fresh, non-zero clock reading per file
realtime == Len(files) + 2

\* the --Start instant, before every clock reading of the run
StartTimestamp == 1

\* --------------------------------------------------------------- packets
\* the payload recvfrom()/fread() stores at buff2, after the two bytes kept
\* free for the size header
Payload(id, size) ==
    [k \in 1 .. size |-> <<id, k + (IF do_blocklen THEN 2 ELSE 0), 0>>]

ScratchAfterRead(id, size) ==
    (IF do_blocklen THEN <<ZeroByte, ZeroByte>> ELSE <<>>) \o Payload(id, size)

\* a datagram of the given size as its sender emits it: its last byte has
\* value 1, the others 0
Datagram(id, size) ==
    [k \in 1 .. size |->
        <<id, k + (IF do_blocklen THEN 2 ELSE 0), IF k = size THEN 1 ELSE 0>>]

\* the hard cap on the datagram size, scaled like the other sizes: every
\* packet length is below it
MMAXLEN == 4

\* recvfrom (sock[i], buff2, MMAXLEN-1, ...): the result is the number of
\* bytes stored; the rest of a longer datagram is discarded
recvfrom(size) == IF size > MMAXLEN - 1 THEN MMAXLEN - 1 ELSE size

ScratchAfterRecv(id, size) ==
    (IF do_blocklen THEN <<ZeroByte, ZeroByte>> ELSE <<>>)
        \o SubSeq(Datagram(id, size), 1, recvfrom(size))

\* exit (1) in producer(): the process ends with all its threads
FatalExit ==
    /\ producer_running' = 0
    /\ pcP' = "fatal"
    /\ pcC' = "fatal"
    /\ pcM' = "fatal"

\* *(uint16_t*)buff= (uint16_t)thissize, host byte order (little endian)
SizeHeader(id, size) == << <<id, 1, size % 256>>, <<id, 2, (size \div 256) % 256>> >>

WithSizeHeader(b, id, size) == SizeHeader(id, size) \o SubSeq(b, 3, Len(b))

ZeroCounters == [j \in 1 .. nsock |-> 0]

\* ------------------------------------------------- checks for beamformed data
\* integer division of C: the quotient is truncated towards zero
CDiv(a, b) == IF a >= 0 THEN a \div b ELSE -((-a) \div b)

\* the fields of struct header_lofar the checks read
Header(timestamp, sequence, is200mhz, error) ==
    [timestamp |-> timestamp, sequence |-> sequence, is200mhz |-> is200mhz,
     error |-> error]

\* the headers the senders put on their datagrams during the run
Headers == { Header(0, q, 1, 0) : q \in {0, 16} }

beamformed_packno(header) ==
    CDiv(CDiv(header.timestamp * 1000000 * (160 + 40 * header.is200mhz) + 512, 1024)
           + header.sequence, 16)

beamformed_checkpack(header) == header.error = 0 /\ header.timestamp # -1

\* if (beamformed_check): last_packno of every packet, first_packno of the
\* first one since init_thisfilestat, good_packs of the packets that pass
BeamformedCount(i, header) ==
    LET packno == beamformed_packno(header) IN
    /\ beamformed_last_packno' = [beamformed_last_packno EXCEPT ![i] = packno]
    /\ beamformed_first_packno' =
           (IF beamformed_first_packno[i] = -1
            THEN [beamformed_first_packno EXCEPT ![i] = packno]
            ELSE beamformed_first_packno)
    /\ beamformed_good_packs' =
           (IF beamformed_checkpack(header)
            THEN [beamformed_good_packs EXCEPT ![i] = @ + 1]
            ELSE beamformed_good_packs)

\* ------------------------------------------------------- option --Maxfilesize
\* the largest int, scaled: int has 4 bits here
INT_MAX == 7
INT_MIN == -INT_MAX - 1
IntValues == INT_MIN .. INT_MAX

\* the conversion of a double (given in halves) to the int parameter of
\* abs(): truncated towards zero; undefined if the result is no int
DoubleToInt(halves) ==
    IF CDiv(halves, 2) \in IntValues THEN {CDiv(halves, 2)} ELSE IntValues

\* int abs (int): undefined for INT_MIN
abs(j) == IF j = INT_MIN THEN IntValues ELSE {Abs(j)}

\* maxfilesize= abs (maxfilesize): the values the double can hold afterwards
MaxfilesizeStored(halves) == UNION { abs(j) : j \in DoubleToInt(halves) }

\* ------------------------------------------------------------------- Init
\* the state when main() is at mainpc, for a command line
InitMain(cmd, mainpc) ==
    /\ portnos = cmd.ports
    /\ PacketSizes = cmd.sizes
    /\ packlen = cmd.len
    /\ do_blocklen = cmd.sizehead
    /\ maxwrite = cmd.maxwrite
    /\ optarg = 2 * cmd.maxfilesize
    /\ maxfilesize \in MaxfilesizeStored(2 * cmd.maxfilesize)
    /\ stat_per_splitfile = (cmd.maxfilesize >= 0)
    /\ beamformed_check = cmd.check
    /\ ringbuffer = [fillsize |-> 0, front |-> 0, rear |-> 0,
                     totsize |-> vrb_totsize(cmd.bufsize)]
    /\ mem = [a \in 0 .. vrb_totsize(cmd.bufsize) - 1 |-> ZeroByte]
    \* with --Start main() opens the first file itself
    /\ LET fnum == IF cmd.maxfilesize # 0 THEN 0 ELSE -1 IN
       IF cmd.start
       THEN /\ outf = 1
            /\ files = << [ts |-> StartTimestamp, num |-> fnum, data |-> <<>>] >>
            /\ filenumber = (IF fnum >= 0 THEN fnum + 1 ELSE fnum)
            /\ timestamp_last = StartTimestamp
       ELSE /\ outf = NULL
            /\ files = <<>>
            /\ filenumber = fnum
            /\ timestamp_last = 0
    /\ stopped = 0
    /\ bytes_written_thisfile = 0
    /\ region_mutex = "free"
    /\ stopped_mutex = "free"
    /\ waitData = FALSE
    /\ waitSpace = FALSE
    /\ producer_running = 0
    /\ cancelReq = FALSE
    /\ totlen = 0
    /\ lasttotlen = 0
    /\ packs_seen = [j \in 1 .. Len(portnos) |-> 0]
    /\ packs_dropped = [j \in 1 .. Len(portnos) |-> 0]
    /\ bytes_written = [j \in 1 .. Len(portnos) |-> 0]
    /\ beamformed_first_packno = [j \in 1 .. Len(portnos) |-> -1]
    /\ beamformed_last_packno = [j \in 1 .. Len(portnos) |-> 0]
    /\ beamformed_good_packs = [j \in 1 .. Len(portnos) |-> 0]
    /\ pcP = "p_start"
    /\ pret = "p_start"
    /\ pi = 1
    /\ myallsocks = [j \in 1 .. Len(portnos) |-> 0]
    /\ p_thissize = 0
    /\ buff = <<>>
    /\ newpoi = NULL
    /\ pcC = "c_lock"
    /\ oldpoi = NULL
    /\ my_stopped = 0
    /\ old_stopped = 0
    /\ c_thissize = 0
    /\ hpc = [c \in {"prod", "sig"} |-> "idle"]
    /\ hsig = [c \in {"prod", "sig"} |-> 0]
    /\ hval = [c \in {"prod", "sig"} |-> 0]
    /\ sigthread = "main"
    /\ pcM = mainpc
    /\ arrived = 0
    /\ stdin_eof = FALSE
    /\ nsignals = 0
    /\ stream = <<>>

\* the state after main() has started the threads
InitCmd(cmd) ==
    /\ InitMain(cmd, "m_join_c")
    /\ header_lofar = Header(0, 0, 0, 0)

Init == \E cmd \in UdpCmds \cup StdinCmds : InitCmd(cmd)

\* ------------------------------------------------------------- conditions
\* pthread_cond_signal (&data_available): wakes the consumer if it waits
SignalDataAvailable == waitData' = FALSE

\* pthread_cond_signal (&space_available): wakes the producer if it waits
\* as SignalSpaceAvailable, but nobody is woken
SignalSpaceAvailable_none == UNCHANGED waitSpace

SignalSpaceAvailable == waitSpace' = FALSE

\* --------------------------------------------------------------- producer
\* end of the body of   for (i= 0; i<nsock; i++)
NextSock ==
    IF pi < nsock
    THEN /\ pi' = pi + 1
         /\ pcP' = "p_for"
    ELSE /\ pi' = 1
         /\ pcP' = "p_top"

\* producer() calls signal_handler (signum) and continues at ret
CallHandler(signum, ret) ==
    /\ pcP' = "p_handler"
    /\ pret' = ret
    /\ hpc' = [hpc EXCEPT !["prod"] = "h_entry"]
    /\ hsig' = [hsig EXCEPT !["prod"] = signum]

\* producer_running= 1
P_Start ==
    /\ pcP = "p_start"
    /\ producer_running' = 1
    /\ pcP' = "p_top"
    /\ UNCHANGED <<cfgvars, vrbvars, cntvars, filevars, consvars, hdlvars, envvars,
                   stopped, region_mutex, stopped_mutex, waitData, waitSpace,
                   cancelReq, pcM, stream, pret, pi, myallsocks, p_thissize, buff,
                   newpoi, header_lofar>>

\* if (totlen-lasttotlen>1e9) signal_handler (0);
P_Top ==
    /\ pcP = "p_top"
    /\ IF totlen - lasttotlen > ProgressBytes
       THEN CallHandler(0, "p_mode")
       ELSE /\ pcP' = "p_mode"
            /\ UNCHANGED <<pret, hpc, hsig>>
    /\ UNCHANGED <<cfgvars, vrbvars, cntvars, filevars, consvars, envvars, hval,
                   stopped, region_mutex, stopped_mutex, waitData, waitSpace,
                   producer_running, cancelReq, pcM, stream, pi, myallsocks,
                   p_thissize, buff, newpoi, header_lofar, sigthread>>

\* stdin: if (stopped) thissize= 0; else wait for space and read
P_StdinMode ==
    /\ pcP = "p_mode"
    /\ IsStdin
    /\ IF stopped # 0
       THEN /\ p_thissize' = 0
            /\ pi' = 1
            /\ pcP' = "p_for"
       ELSE /\ pcP' = "p_space"
            /\ UNCHANGED <<p_thissize, pi>>
    /\ UNCHANGED <<cfgvars, vrbvars, cntvars, filevars, consvars, hdlvars, envvars,
                   stopped, region_mutex, stopped_mutex, waitData, waitSpace,
                   producer_running, cancelReq, pcM, stream, pret, myallsocks,
                   buff, newpoi, header_lofar>>

\* as P_SpaceTest, but without the unlock after the loop
P_SpaceTest_nounlock ==
    /\ \/ pcP = "p_space"
       \/ pcP = "p_waiting" /\ ~waitSpace /\ ~cancelReq
    /\ region_mutex = "free"
    /\ region_mutex' = "prod"
    /\ pcP' = IF vrb_poi_new(ringbuffer, packlen) = NULL
              THEN "p_condwait" ELSE "p_fread"
    /\ UNCHANGED <<cfgvars, vrbvars, cntvars, filevars, consvars, hdlvars, envvars,
                   stopped, stopped_mutex, waitData, waitSpace, producer_running,
                   cancelReq, pcM, stream, pret, pi, myallsocks, p_thissize, buff,
                   newpoi, header_lofar>>

\* the test of   while ( vrb_poi_new (&ringbuffer, packlen) == NULL )   with
\* region_mutex held: on entry, and after each return of pthread_cond_wait
P_SpaceTest ==
    /\ \/ pcP = "p_space"
       \/ pcP = "p_waiting" /\ ~waitSpace /\ ~cancelReq
    /\ region_mutex = "free"
    /\ IF vrb_poi_new(ringbuffer, packlen) = NULL
       THEN /\ region_mutex' = "prod"
            /\ pcP' = "p_condwait"
       ELSE /\ UNCHANGED region_mutex
            /\ pcP' = "p_fread"
    /\ UNCHANGED <<cfgvars, vrbvars, cntvars, filevars, consvars, hdlvars, envvars,
                   stopped, stopped_mutex, waitData, waitSpace, producer_running,
                   cancelReq, pcM, stream, pret, pi, myallsocks, p_thissize, buff,
                   newpoi, header_lofar>>

\* pthread_cond_wait(&space_available,&region_mutex): release and block
P_CondWait ==
    /\ pcP = "p_condwait"
    /\ region_mutex' = "free"
    /\ waitSpace' = TRUE
    /\ pcP' = "p_waiting"
    /\ UNCHANGED <<cfgvars, vrbvars, cntvars, filevars, consvars, hdlvars, envvars,
                   stopped, stopped_mutex, waitData, producer_running, cancelReq,
                   pcM, stream, pret, pi, myallsocks, p_thissize, buff, newpoi, header_lofar>>

\* thissize= fread (buff2, 1, packlen, stdin): a whole block, or the short
\* last block of the input, or 0 at end of file, which is treated as timeout
P_Fread ==
    /\ pcP = "p_fread"
    /\ \/ /\ ~stdin_eof
          /\ arrived < MaxPackets
          /\ arrived' = arrived + 1
          /\ p_thissize' = packlen
          /\ buff' = ScratchAfterRead(arrived + 1, packlen)
          /\ pi' = 1
          /\ pcP' = "p_for"
          /\ UNCHANGED <<stdin_eof, pret, hpc, hsig>>
       \/ /\ ~stdin_eof
          /\ arrived < MaxPackets
          /\ \E size \in 1 .. packlen - 1 :
                /\ p_thissize' = size
                /\ buff' = ScratchAfterRead(arrived + 1, size)
          /\ arrived' = arrived + 1
          /\ stdin_eof' = TRUE
          /\ pi' = 1
          /\ pcP' = "p_for"
          /\ UNCHANGED <<pret, hpc, hsig>>
       \/ /\ stdin_eof' = TRUE
          /\ p_thissize' = 0
          /\ pi' = 1
          /\ CallHandler(-1, "p_for")
          /\ UNCHANGED <<arrived, buff>>
    /\ UNCHANGED <<cfgvars, vrbvars, cntvars, filevars, consvars, hval, nsignals,
                   stopped, region_mutex, stopped_mutex, waitData, waitSpace,
                   producer_running, cancelReq, pcM, stream, myallsocks, newpoi,
                   header_lofar, sigthread>>

\* sockets: if (stopped==2) close all sockets and pthread_exit
P_UdpMode ==
    /\ pcP = "p_mode"
    /\ ~IsStdin
    /\ IF stopped = 2
       THEN /\ producer_running' = 0
            /\ pcP' = "exited"
       ELSE /\ pcP' = "p_select"
            /\ UNCHANGED producer_running
    /\ UNCHANGED <<cfgvars, vrbvars, cntvars, filevars, consvars, hdlvars, envvars,
                   stopped, region_mutex, stopped_mutex, waitData, waitSpace,
                   cancelReq, pcM, stream, pret, pi, myallsocks, p_thissize, buff,
                   newpoi, header_lofar>>

\* i= pselect (...): 0 on timeout, else the sockets with a datagram waiting
P_Select ==
    /\ pcP = "p_select"
    /\ ~cancelReq
    /\ pi' = 1
    /\ \/ /\ Len(files) < MaxFiles \/ stopped = 2 \/ waitData
          /\ myallsocks' = [j \in 1 .. nsock |-> 0]
          /\ CallHandler(-1, "p_for")
       \/ /\ \E ready \in [1 .. nsock -> {0} \cup PacketSizes] :
                /\ ready # [j \in 1 .. nsock |-> 0]
                /\ arrived + Cardinality({j \in 1 .. nsock : ready[j] # 0}) <= MaxPackets
                /\ myallsocks' = ready
          /\ pcP' = "p_for"
          /\ UNCHANGED <<pret, hpc, hsig>>
    /\ UNCHANGED <<cfgvars, vrbvars, cntvars, filevars, consvars, hval, envvars,
                   stopped, region_mutex, stopped_mutex, waitData, waitSpace,
                   producer_running, cancelReq, pcM, stream, p_thissize, buff,
                   newpoi, header_lofar, sigthread>>

\* sockets: thissize= recvfrom (sock[i], buff2, ...) if FD_ISSET, else 0;
\* then   if (thissize)
P_Recv ==
    /\ pcP = "p_for"
    /\ ~IsStdin
    /\ ~(cancelReq /\ myallsocks[pi] # 0)
    /\ IF myallsocks[pi] # 0
       THEN IF recvfrom(myallsocks[pi]) >= MMAXLEN
            THEN /\ FatalExit
                 /\ UNCHANGED <<pi, p_thissize, buff, arrived, consvars_rest>>
            ELSE /\ p_thissize' = recvfrom(myallsocks[pi])
                 /\ buff' = ScratchAfterRecv(arrived + 1, myallsocks[pi])
                 /\ arrived' = arrived + 1
                 /\ pcP' = "p_stopchk"
                 /\ UNCHANGED <<pi, consvars, producer_running, pcM>>
       ELSE /\ p_thissize' = 0
            /\ NextSock
            /\ UNCHANGED <<buff, arrived, consvars, producer_running, pcM>>
    /\ UNCHANGED <<cfgvars, vrbvars, cntvars, filevars, hdlvars,
                   stdin_eof, nsignals, stopped, region_mutex, stopped_mutex,
                   waitData, waitSpace, cancelReq, stream,
                   pret, myallsocks, newpoi, header_lofar>>

\* stdin: thissize was set before the loop; if (thissize)
P_StdinFor ==
    /\ pcP = "p_for"
    /\ IsStdin
    /\ IF p_thissize # 0
       THEN /\ pcP' = "p_stopchk"
            /\ UNCHANGED pi
       ELSE NextSock
    /\ UNCHANGED <<cfgvars, vrbvars, cntvars, filevars, consvars, hdlvars, envvars,
                   stopped, region_mutex, stopped_mutex, waitData, waitSpace,
                   producer_running, cancelReq, pcM, stream, pret, myallsocks,
                   p_thissize, buff, newpoi, header_lofar>>

\* if (stopped==2) discard the packet
P_StopChk ==
    /\ pcP = "p_stopchk"
    /\ IF stopped = 2
       THEN NextSock
       ELSE /\ pcP' = "p_accept"
            /\ UNCHANGED pi
    /\ UNCHANGED <<cfgvars, vrbvars, cntvars, filevars, consvars, hdlvars, envvars,
                   stopped, region_mutex, stopped_mutex, waitData, waitSpace,
                   producer_running, cancelReq, pcM, stream, pret, myallsocks,
                   p_thissize, buff, newpoi, header_lofar>>

\* as LengthAccepted, but every length passes
LengthAccepted_any(size) == TRUE

\* if (packlen==0 || thissize==packlen)
LengthAccepted(size) == packlen = 0 \/ size = packlen

\* if (packlen==0 || thissize==packlen): add the size header if wanted,
\* packs_seen[i]++; else report the wrong length and discard
P_Accept ==
    /\ pcP = "p_accept"
    /\ IF LengthAccepted(p_thissize)
       THEN /\ buff' = (IF do_blocklen
                        THEN WithSizeHeader(buff, arrived, p_thissize) ELSE buff)
            /\ p_thissize' = (IF do_blocklen THEN p_thissize + 2 ELSE p_thissize)
            /\ IF beamformed_check
               THEN \E header \in Headers :
                       /\ header_lofar' = header
                       /\ BeamformedCount(pi, header)
               ELSE UNCHANGED <<bfvars, header_lofar>>
            /\ packs_seen' = [packs_seen EXCEPT ![pi] = @ + 1]
            /\ pcP' = "p_reserve"
            /\ UNCHANGED pi
       ELSE /\ NextSock
            /\ UNCHANGED <<buff, p_thissize, packs_seen, bfvars, header_lofar>>
    /\ UNCHANGED <<cfgvars, vrbvars, filevars, consvars, hdlvars, envvars,
                   totlen, lasttotlen, packs_dropped, bytes_written,
                   stopped, region_mutex, stopped_mutex, waitData, waitSpace,
                   producer_running, cancelReq, pcM, stream, pret, myallsocks,
                   newpoi>>

\* lock; newpoi= vrb_poi_new (&ringbuffer, thissize); unlock;
\* if (newpoi==NULL)
P_Reserve ==
    /\ pcP = "p_reserve"
    /\ region_mutex = "free"
    /\ newpoi' = vrb_poi_new(ringbuffer, p_thissize)
    /\ pcP' = (IF vrb_poi_new(ringbuffer, p_thissize) = NULL THEN "p_drop" ELSE "p_copy")
    /\ UNCHANGED <<cfgvars, vrbvars, cntvars, filevars, consvars, hdlvars, envvars,
                   stopped, region_mutex, stopped_mutex, waitData, waitSpace,
                   producer_running, cancelReq, pcM, stream, pret, pi, myallsocks,
                   p_thissize, buff, header_lofar>>

\* simply drop this packet: packs_dropped[i]++
P_Drop ==
    /\ pcP = "p_drop"
    /\ packs_dropped' = [packs_dropped EXCEPT ![pi] = @ + 1]
    /\ NextSock
    /\ UNCHANGED <<cfgvars, vrbvars, filevars, consvars, hdlvars, envvars,
                   totlen, lasttotlen, packs_seen, bytes_written, bfvars,
                   stopped, region_mutex, stopped_mutex, waitData, waitSpace,
                   producer_running, cancelReq, pcM, stream, pret, myallsocks,
                   p_thissize, buff, newpoi, header_lofar>>

\* memcpy (newpoi, buff, thissize), outside the mutex
P_Copy ==
    /\ pcP = "p_copy"
    /\ mem' = MemWrite(mem, ringbuffer.totsize, newpoi, SubSeq(buff, 1, p_thissize))
    /\ pcP' = "p_commit"
    /\ UNCHANGED <<cfgvars, ringbuffer, cntvars, filevars, consvars, hdlvars,
                   envvars, stopped, region_mutex, stopped_mutex, waitData,
                   waitSpace, producer_running, cancelReq, pcM, stream, pret, pi,
                   myallsocks, p_thissize, buff, newpoi, header_lofar>>

\* lock; vrb_advance_new (&ringbuffer, thissize); signal data_available;
\* unlock
P_Commit ==
    /\ pcP = "p_commit"
    /\ region_mutex = "free"
    /\ ringbuffer' = vrb_advance_new(ringbuffer, p_thissize)
    /\ stream' = stream \o SubSeq(buff, 1, p_thissize)
    /\ SignalDataAvailable
    /\ pcP' = "p_count"
    /\ UNCHANGED <<cfgvars, mem, cntvars, filevars, consvars, hdlvars, envvars,
                   stopped, region_mutex, stopped_mutex, waitSpace,
                   producer_running, cancelReq, pcM, pret, pi, myallsocks,
                   p_thissize, buff, newpoi, header_lofar>>

\* totlen+= thissize; bytes_written[i]+= thissize;
P_Count ==
    /\ pcP = "p_count"
    /\ totlen' = totlen + p_thissize
    /\ bytes_written' = [bytes_written EXCEPT ![pi] = @ + p_thissize]
    /\ NextSock
    /\ UNCHANGED <<cfgvars, vrbvars, filevars, consvars, hdlvars, envvars,
                   lasttotlen, packs_seen, packs_dropped, bfvars,
                   stopped, region_mutex, stopped_mutex, waitData, waitSpace,
                   producer_running, cancelReq, pcM, stream, pret, myallsocks,
                   p_thissize, buff, newpoi, header_lofar>>

\* pthread_cancel() takes effect at the producer's next cancellation point:
\* pselect, recvfrom, pthread_cond_wait (which first takes the mutex again),
\* and possibly fread
P_Cancelled ==
    /\ cancelReq
    /\ \/ /\ pcP \in {"p_select", "p_fread"}
          /\ UNCHANGED region_mutex
       \/ /\ pcP = "p_for"
          /\ ~IsStdin
          /\ myallsocks[pi] # 0
          /\ UNCHANGED region_mutex
       \/ /\ pcP = "p_waiting"
          /\ region_mutex = "free"
          /\ region_mutex' = "prod"
    /\ pcP' = "exited"
    /\ UNCHANGED <<cfgvars, vrbvars, cntvars, filevars, consvars, hdlvars, envvars,
                   stopped, stopped_mutex, waitData, waitSpace, producer_running,
                   cancelReq, pcM, stream, pret, pi, myallsocks, p_thissize, buff,
                   newpoi, header_lofar>>

\* --------------------------------------------------------- signal_handler
\* One run of signal_handler (signum) in context c.  hpc[c] is its position,
\* hval[c] the stop level it is about to store.
StopSignals == {SIGINT, SIGTERM, SIGALRM}

\* the signals a run delivers: SIGTERM and SIGALRM take SIGINT's branch
DeliveredSignals == {SIGHUP, SIGINT}

\* signal_handler() returns: the asynchronous context is over, the producer
\* continues after its call
\* a thread stands still while it runs the handler of a signal from outside
ThreadRuns(t) == ~(sigthread = t /\ hpc["sig"] # "idle")

\* the call of signal_handler by the producer is part of the producer thread
ContextRuns(c) == c = "prod" => ThreadRuns("prod")

HandlerReturn(c) ==
    /\ hpc' = [hpc EXCEPT ![c] = "idle"]
    /\ IF c = "prod"
       THEN pcP' = pret
       ELSE UNCHANGED pcP

\* as FileIsOpen, but a file is always taken to be open
FileIsOpen_always(f) == TRUE

\* the handler's tests of outf:  outf==NULL  and  if (outf)
FileIsOpen(f) == f # NULL

\* if (signum<0 && outf==NULL): timeout, but no file open; on stdin that is
\* the end of the input
H_Entry(c) ==
    /\ hpc[c] = "h_entry"
    /\ ContextRuns(c)
    /\ IF hsig[c] < 0 /\ ~FileIsOpen(outf)
       THEN IF IsStdin
            THEN /\ hpc' = [hpc EXCEPT ![c] = "h_lock"]
                 /\ hval' = [hval EXCEPT ![c] = 2]
                 /\ UNCHANGED pcP
            ELSE /\ HandlerReturn(c)
                 /\ UNCHANGED hval
       ELSE /\ hpc' = [hpc EXCEPT ![c] = "h_stats"]
            /\ UNCHANGED <<hval, pcP>>
    /\ UNCHANGED <<cfgvars, vrbvars, cntvars, filevars, consvars, envvars, hsig,
                   stopped, region_mutex, stopped_mutex, waitData, waitSpace,
                   producer_running, cancelReq, pcM, stream, pret, pi, myallsocks,
                   p_thissize, buff, newpoi, header_lofar, sigthread>>

\* the report, and   lasttotlen= totlen;   then the branch on signum:
\* SIGINT, SIGTERM, SIGALRM store 2; -1 and SIGHUP go on to test outf
H_Stats(c) ==
    /\ hpc[c] = "h_stats"
    /\ ContextRuns(c)
    /\ lasttotlen' = totlen
    /\ IF hsig[c] \in StopSignals
       THEN /\ hpc' = [hpc EXCEPT ![c] = "h_lock"]
            /\ hval' = [hval EXCEPT ![c] = 2]
            /\ UNCHANGED pcP
       ELSE IF hsig[c] \in {-1, SIGHUP}
            THEN /\ hpc' = [hpc EXCEPT ![c] = "h_testoutf"]
                 /\ UNCHANGED <<hval, pcP>>
            ELSE /\ HandlerReturn(c)
                 /\ UNCHANGED hval
    /\ UNCHANGED <<cfgvars, vrbvars, filevars, consvars, envvars, hsig,
                   totlen, packs_seen, packs_dropped, bytes_written, bfvars,
                   stopped, region_mutex, stopped_mutex, waitData, waitSpace,
                   producer_running, cancelReq, pcM, stream, pret, pi, myallsocks,
                   p_thissize, buff, newpoi, header_lofar, sigthread>>

\* the stop level stored once a file is found open: 2 for the end of stdin,
\* else 1 (after the test of stopped)
HangupLevel(signum) == IF signum < 0 /\ IsStdin THEN 2 ELSE 1

\* if (outf)
H_TestOutf(c) ==
    /\ hpc[c] = "h_testoutf"
    /\ ContextRuns(c)
    /\ IF FileIsOpen(outf)
       THEN /\ hval' = [hval EXCEPT ![c] = HangupLevel(hsig[c])]
            /\ hpc' = [hpc EXCEPT ![c] =
                          IF HangupLevel(hsig[c]) = 2 THEN "h_lock" ELSE "h_teststop"]
            /\ UNCHANGED pcP
       ELSE /\ HandlerReturn(c)
            /\ UNCHANGED hval
    /\ UNCHANGED <<cfgvars, vrbvars, cntvars, filevars, consvars, envvars, hsig,
                   stopped, region_mutex, stopped_mutex, waitData, waitSpace,
                   producer_running, cancelReq, pcM, stream, pret, pi, myallsocks,
                   p_thissize, buff, newpoi, header_lofar, sigthread>>

\* if (stopped==0)  /* may already be 2 */   read without the mutex
StoppedIsClear(level) == level = 0

H_TestStop(c) ==
    /\ hpc[c] = "h_teststop"
    /\ ContextRuns(c)
    /\ hpc' = [hpc EXCEPT ![c] = IF StoppedIsClear(stopped) THEN "h_lock" ELSE "h_signal"]
    /\ UNCHANGED <<cfgvars, vrbvars, cntvars, filevars, prodvars, consvars, envvars,
                   hsig, hval, stopped, region_mutex, stopped_mutex, waitData,
                   waitSpace, producer_running, cancelReq, pcM, stream, sigthread>>

\* pthread_mutex_lock(&stopped_mutex); stopped= ...; pthread_mutex_unlock
H_Lock(c) ==
    /\ hpc[c] = "h_lock"
    /\ ContextRuns(c)
    /\ stopped_mutex = "free"
    /\ stopped' = hval[c]
    /\ hpc' = [hpc EXCEPT ![c] = "h_signal"]
    /\ UNCHANGED <<cfgvars, vrbvars, cntvars, filevars, prodvars, consvars, envvars,
                   hsig, hval, region_mutex, stopped_mutex, waitData, waitSpace,
                   producer_running, cancelReq, pcM, stream, sigthread>>

\* pthread_cond_signal(&data_available);  /* pretend that data is available */
H_Signal(c) ==
    /\ hpc[c] = "h_signal"
    /\ ContextRuns(c)
    /\ SignalDataAvailable
    /\ HandlerReturn(c)
    /\ UNCHANGED <<cfgvars, vrbvars, cntvars, filevars, consvars, envvars, hsig,
                   hval, stopped, region_mutex, stopped_mutex, waitSpace,
                   producer_running, cancelReq, pcM, stream, pret, pi, myallsocks,
                   p_thissize, buff, newpoi, header_lofar, sigthread>>

\* the kernel delivers a signal; the handler first prints "caught signal"
DeliverSignal ==
    /\ hpc["sig"] = "idle"
    /\ pcM # "done"
    /\ nsignals < MaxSignals
    /\ nsignals' = nsignals + 1
    /\ \E signum \in DeliveredSignals :
          hsig' = [hsig EXCEPT !["sig"] = signum]
    /\ hpc' = [hpc EXCEPT !["sig"] = "h_stats"]
    /\ sigthread' = "main"
    /\ UNCHANGED <<cfgvars, vrbvars, cntvars, filevars, prodvars, consvars, hval,
                   arrived, stdin_eof, stopped, region_mutex, stopped_mutex,
                   waitData, waitSpace, producer_running, cancelReq, pcM, stream>>

\* --------------------------------------------------------------- consumer
\* lock; the test of   while ((oldpoi=vrb_poi_old (&ringbuffer)) == NULL
\* && ! stopped)   on entry and after each return of pthread_cond_wait
C_Test ==
    /\ \/ pcC = "c_lock"
       \/ pcC = "c_waiting" /\ ~waitData
    /\ region_mutex = "free"
    /\ oldpoi' = vrb_poi_old(ringbuffer)
    /\ IF vrb_poi_old(ringbuffer) = NULL /\ stopped = 0
       THEN /\ region_mutex' = "cons"
            /\ pcC' = "c_condwait"
       ELSE /\ UNCHANGED region_mutex
            /\ pcC' = "c_snap"
    /\ UNCHANGED <<cfgvars, vrbvars, cntvars, filevars, prodvars, hdlvars, envvars,
                   stopped, stopped_mutex, waitData, waitSpace, producer_running,
                   cancelReq, pcM, stream, my_stopped, old_stopped, c_thissize>>

\* pthread_cond_wait(&data_available,&region_mutex): release and block
C_CondWait ==
    /\ pcC = "c_condwait"
    /\ region_mutex' = "free"
    /\ waitData' = TRUE
    /\ pcC' = "c_waiting"
    /\ UNCHANGED <<cfgvars, vrbvars, cntvars, filevars, prodvars, hdlvars, envvars,
                   stopped, stopped_mutex, waitSpace, producer_running, cancelReq,
                   pcM, stream, oldpoi, my_stopped, old_stopped, c_thissize>>

\* lock stopped_mutex; my_stopped= old_stopped= stopped;
C_Snap ==
    /\ pcC = "c_snap"
    /\ stopped_mutex = "free"
    /\ stopped_mutex' = "cons"
    /\ my_stopped' = stopped
    /\ old_stopped' = stopped
    /\ pcC' = "c_snap_unlock"
    /\ UNCHANGED <<cfgvars, vrbvars, cntvars, filevars, prodvars, hdlvars, envvars,
                   stopped, region_mutex, waitData, waitSpace, producer_running,
                   cancelReq, pcM, stream, oldpoi, c_thissize>>

\* also stop for filesize
SplitLevel(level) ==
    IF level = 0 /\ maxfilesize > 0 /\ bytes_written_thisfile > maxfilesize
    THEN -1 ELSE level

\* as CloseWanted, but not at the end of the program
CloseWanted_notatend(level, poi) ==
    /\ Abs(level) = 1
    /\ outf # NULL

\* end file if wanted
CloseWanted(level, poi) ==
    /\ (level = 2 /\ poi = NULL) \/ Abs(level) = 1
    /\ outf # NULL

\* as ExitWanted, but without the test for an empty buffer
ExitWanted_nonempty(level, poi) == level = 2

\* as ExitWanted, but on every non-zero stop level
ExitWanted_anylevel(level, poi) == level # 0 /\ poi = NULL

\* end program (even if no file)
ExitWanted(level, poi) == level = 2 /\ poi = NULL

\* unlock stopped_mutex; the file size test and the close decision
C_SnapUnlock ==
    /\ pcC = "c_snap_unlock"
    /\ stopped_mutex' = "free"
    /\ my_stopped' = SplitLevel(my_stopped)
    /\ pcC' = (IF CloseWanted(SplitLevel(my_stopped), oldpoi) THEN "c_stat"
               ELSE IF ExitWanted(SplitLevel(my_stopped), oldpoi) THEN "exited"
               ELSE "c_reset")
    /\ UNCHANGED <<cfgvars, vrbvars, cntvars, filevars, prodvars, hdlvars, envvars,
                   stopped, region_mutex, waitData, waitSpace, producer_running,
                   cancelReq, pcM, stream, oldpoi, old_stopped, c_thissize>>

\* if (my_stopped!=-1 || stat_per_splitfile) { final_statistics ();
\* init_thisfilestat (); }
C_Stat ==
    /\ pcC = "c_stat"
    /\ IF my_stopped # -1 \/ stat_per_splitfile
       THEN /\ packs_seen' = ZeroCounters
            /\ packs_dropped' = ZeroCounters
            /\ bytes_written' = ZeroCounters
            /\ beamformed_first_packno' = [j \in 1 .. nsock |-> -1]
            /\ beamformed_good_packs' = ZeroCounters
            /\ totlen' = 0
            /\ lasttotlen' = 0
            /\ UNCHANGED beamformed_last_packno
       ELSE UNCHANGED cntvars
    /\ pcC' = "c_fclose"
    /\ UNCHANGED <<cfgvars, vrbvars, filevars, prodvars, hdlvars, envvars,
                   stopped, region_mutex, stopped_mutex, waitData, waitSpace,
                   producer_running, cancelReq, pcM, stream, oldpoi, my_stopped,
                   old_stopped, c_thissize>>

\* as C_Fclose, but the close also empties the ring buffer
C_Fclose_discard ==
    /\ pcC = "c_fclose"
    /\ outf' = NULL
    /\ ringbuffer' = vrb_advance_old(ringbuffer, ringbuffer.fillsize)
    /\ pcC' = (IF my_stopped = -1 THEN "c_split"
               ELSE IF ExitWanted(my_stopped, oldpoi) THEN "exited"
               ELSE "c_reset")
    /\ UNCHANGED <<cfgvars, mem, cntvars, prodvars, hdlvars, envvars,
                   bytes_written_thisfile, filenumber, timestamp_last, files,
                   stopped, region_mutex, stopped_mutex, waitData, waitSpace,
                   producer_running, cancelReq, pcM, stream, oldpoi, my_stopped,
                   old_stopped, c_thissize>>

\* fclose (outf) or pclose (outf); outf= NULL;
C_Fclose ==
    /\ pcC = "c_fclose"
    /\ outf' = NULL
    /\ pcC' = (IF my_stopped = -1 THEN "c_split"
               ELSE IF ExitWanted(my_stopped, oldpoi) THEN "exited"
               ELSE "c_reset")
    /\ UNCHANGED <<cfgvars, vrbvars, cntvars, prodvars, hdlvars, envvars,
                   bytes_written_thisfile, filenumber, timestamp_last, files,
                   stopped, region_mutex, stopped_mutex, waitData, waitSpace,
                   producer_running, cancelReq, pcM, stream, oldpoi, my_stopped,
                   old_stopped, c_thissize>>

\* start_file (0): with same name, new number
C_Split ==
    /\ pcC = "c_split"
    /\ start_file(0, filenumber)
    /\ pcC' = "c_reset"
    /\ UNCHANGED <<cfgvars, vrbvars, cntvars, prodvars, hdlvars, envvars,
                   stopped, region_mutex, stopped_mutex, waitData, waitSpace,
                   producer_running, cancelReq, pcM, stream, oldpoi, my_stopped,
                   old_stopped, c_thissize>>

\* the stop level the consumer leaves behind: cleared if it is still the
\* one that was acted on and is not 2
ResetLevel(level, old) == IF level = old /\ level # 2 THEN 0 ELSE level

\* lock stopped_mutex; if (stopped==old_stopped) { if (stopped!=2) stopped= 0; }
C_Reset ==
    /\ pcC = "c_reset"
    /\ stopped_mutex = "free"
    /\ stopped_mutex' = "cons"
    /\ stopped' = ResetLevel(stopped, old_stopped)
    /\ pcC' = "c_reset_unlock"
    /\ UNCHANGED <<cfgvars, vrbvars, cntvars, filevars, prodvars, hdlvars, envvars,
                   region_mutex, waitData, waitSpace, producer_running, cancelReq,
                   pcM, stream, oldpoi, my_stopped, old_stopped, c_thissize>>

\* unlock; if (oldpoi==NULL) continue;
C_ResetUnlock ==
    /\ pcC = "c_reset_unlock"
    /\ stopped_mutex' = "free"
    /\ pcC' = (IF oldpoi = NULL THEN "c_lock" ELSE "c_size")
    /\ UNCHANGED <<cfgvars, vrbvars, cntvars, filevars, prodvars, hdlvars, envvars,
                   stopped, region_mutex, waitData, waitSpace, producer_running,
                   cancelReq, pcM, stream, oldpoi, my_stopped, old_stopped,
                   c_thissize>>

\* lock; thissize= ringbuffer.fillsize; unlock; if (outf==NULL)
C_Size ==
    /\ pcC = "c_size"
    /\ region_mutex = "free"
    /\ c_thissize' = ringbuffer.fillsize
    /\ pcC' = (IF outf = NULL THEN "c_open" ELSE "c_write")
    /\ UNCHANGED <<cfgvars, vrbvars, cntvars, filevars, prodvars, hdlvars, envvars,
                   stopped, region_mutex, stopped_mutex, waitData, waitSpace,
                   producer_running, cancelReq, pcM, stream, oldpoi, my_stopped,
                   old_stopped>>

\* no file open, open it now: if (filenumber>0) filenumber= 0;
\* start_file (realtime ());
C_Open ==
    /\ pcC = "c_open"
    /\ start_file(realtime, IF filenumber > 0 THEN 0 ELSE filenumber)
    /\ pcC' = "c_write"
    /\ UNCHANGED <<cfgvars, vrbvars, cntvars, prodvars, hdlvars, envvars,
                   stopped, region_mutex, stopped_mutex, waitData, waitSpace,
                   producer_running, cancelReq, pcM, stream, oldpoi, my_stopped,
                   old_stopped, c_thissize>>

\* as ChunkSize, but without the limit of the fill level
ChunkSize_nofill(fill) ==
    IF packlen # 0 THEN (maxwrite \div packlen) * packlen ELSE maxwrite

\* the size of the next write: at most maxwrite, and only full packages
\* (if length known)
ChunkSize(fill) ==
    LET capped == IF fill > maxwrite THEN maxwrite ELSE fill
    IN  IF packlen # 0 THEN (capped \div packlen) * packlen ELSE capped

\* i= fwrite (oldpoi, 1, thissize, outf); bytes_written_thisfile+= thissize;
C_Write ==
    /\ pcC = "c_write"
    /\ c_thissize' = ChunkSize(c_thissize)
    /\ files' = [files EXCEPT ![outf].data =
                    @ \o MemRead(mem, ringbuffer.totsize, oldpoi, ChunkSize(c_thissize))]
    /\ bytes_written_thisfile' = bytes_written_thisfile + ChunkSize(c_thissize)
    /\ pcC' = "c_release"
    /\ UNCHANGED <<cfgvars, vrbvars, cntvars, prodvars, hdlvars, envvars,
                   outf, filenumber, timestamp_last,
                   stopped, region_mutex, stopped_mutex, waitData, waitSpace,
                   producer_running, cancelReq, pcM, stream, oldpoi, my_stopped,
                   old_stopped>>

\* lock; vrb_advance_old (&ringbuffer, thissize); signal space_available;
\* unlock
C_Release ==
    /\ pcC = "c_release"
    /\ region_mutex = "free"
    /\ ringbuffer' = vrb_advance_old(ringbuffer, c_thissize)
    /\ SignalSpaceAvailable
    /\ pcC' = "c_lock"
    /\ UNCHANGED <<cfgvars, mem, cntvars, filevars, prodvars, hdlvars, envvars,
                   stopped, region_mutex, stopped_mutex, waitData,
                   producer_running, cancelReq, pcM, stream, oldpoi, my_stopped,
                   old_stopped, c_thissize>>

\* pthread_cond_wait may return without a signal (POSIX spurious wakeup):
\* the consumer's wait for data
SpuriousWakeupData ==
    /\ waitData
    /\ waitData' = FALSE
    /\ UNCHANGED <<cfgvars, vrbvars, cntvars, filevars, prodvars, consvars, hdlvars,
                   envvars, stopped, region_mutex, stopped_mutex, producer_running,
                   cancelReq, pcM, stream, waitSpace>>

\* the producer's wait for space
SpuriousWakeupSpace ==
    /\ waitSpace
    /\ waitSpace' = FALSE
    /\ UNCHANGED <<cfgvars, vrbvars, cntvars, filevars, prodvars, consvars, hdlvars,
                   envvars, stopped, region_mutex, stopped_mutex, producer_running,
                   cancelReq, pcM, stream, waitData>>

\* ------------------------------------------------------------------- main
\* The asynchronous handler runs on the main thread, which is the thread
\* blocked in pthread_join: main() continues only when it has returned.
MainRuns == ThreadRuns("main")

\* pthread_join(consumer_thread,NULL); if (producer_running)
M_JoinConsumer ==
    /\ pcM = "m_join_c"
    /\ MainRuns
    /\ pcC = "exited"
    /\ pcM' = (IF producer_running # 0 THEN "m_sleep" ELSE "m_join_p")
    /\ UNCHANGED <<cfgvars, vrbvars, cntvars, filevars, prodvars, consvars, hdlvars,
                   envvars, stopped, region_mutex, stopped_mutex, waitData,
                   waitSpace, producer_running, cancelReq, stream>>

\* sleep (1); if (producer_running) pthread_cancel (producer_thread);
M_Sleep ==
    /\ pcM = "m_sleep"
    /\ MainRuns
    /\ cancelReq' = (producer_running # 0)
    /\ pcM' = "m_join_p"
    /\ UNCHANGED <<cfgvars, vrbvars, cntvars, filevars, prodvars, consvars, hdlvars,
                   envvars, stopped, region_mutex, stopped_mutex, waitData,
                   waitSpace, producer_running, stream>>

\* pthread_join(producer_thread,NULL); free_vrb (&ringbuffer); return 0;
M_JoinProducer ==
    /\ pcM = "m_join_p"
    /\ MainRuns
    /\ pcP = "exited"
    /\ pcM' = "done"
    /\ UNCHANGED <<cfgvars, vrbvars, cntvars, filevars, prodvars, consvars, hdlvars,
                   envvars, stopped, region_mutex, stopped_mutex, waitData,
                   waitSpace, producer_running, cancelReq, stream>>

\* ------------------------------------------------------------------- Next
\* the steps of producer() both kinds of input share
ProducerCommon ==
    \/ P_Start \/ P_Top \/ P_StopChk \/ P_Accept \/ P_Reserve \/ P_Drop
    \/ P_Copy \/ P_Commit \/ P_Count \/ P_Cancelled

\* the branch   else  /* read from socket */
ProducerSockets == P_UdpMode \/ P_Select \/ P_Recv

\* the branch   if (nsock==1 && portnos[0]==0)   /* then read stdin */
ProducerStdin ==
    \/ P_StdinMode \/ P_SpaceTest \/ P_CondWait \/ P_Fread \/ P_StdinFor

Producer == ProducerCommon \/ ProducerSockets \/ ProducerStdin

Handler(c) ==
    \/ H_Entry(c) \/ H_Stats(c) \/ H_TestOutf(c) \/ H_TestStop(c) \/ H_Lock(c)
    \/ H_Signal(c)

Consumer ==
    \/ C_Test \/ C_CondWait \/ C_Snap \/ C_SnapUnlock \/ C_Stat \/ C_Fclose
    \/ C_Split \/ C_Reset \/ C_ResetUnlock \/ C_Size \/ C_Open \/ C_Write
    \/ C_Release

Main == M_JoinConsumer \/ M_Sleep \/ M_JoinProducer

Next ==
    \/ Producer
    \/ \E c \in {"prod", "sig"} : Handler(c)
    \/ Consumer
    \/ Main
    \/ DeliverSignal
    \/ SpuriousWakeupData
    \/ SpuriousWakeupSpace

Spec == Init /\ [][Next]_vars

\* ------------------------------------------------------ a run on sockets
\* The threads of a UDP run.  The timeout handler runs on the producer
\* thread, the asynchronous handler on the main thread.
UdpProducerThread == ProducerCommon \/ ProducerSockets \/ Handler("prod")

MainThread == Main \/ Handler("sig")

NextUdp ==
    \/ UdpProducerThread
    \/ Consumer
    \/ MainThread
    \/ DeliverSignal
    \/ SpuriousWakeupData

InitUdp == \E cmd \in FairUdpCmds : InitCmd(cmd)

\* Every thread that can take a step eventually takes one; nothing is
\* assumed of signal deliveries and spurious wakeups.
FairSpecUdp ==
    /\ InitUdp
    /\ [][NextUdp]_vars
    /\ WF_vars(UdpProducerThread)
    /\ WF_vars(Consumer)
    /\ WF_vars(MainThread)

\* ------------------------------------- a run with datagrams above the cap
\* the command line of the runs in which senders also emit datagrams of
\* MMAXLEN bytes
OversizeCmds == { Cmd(UdpPorts, 3, FALSE, 4, 4, 2, TRUE, {3, 4}) }

InitOversize == \E cmd \in OversizeCmds : InitCmd(cmd)

SpecOversize == InitOversize /\ [][NextUdp]_vars

\* ------------------------------------------- the doubled range by itself
\* the command line whose ring buffer is written at every offset
VrbCmds == { Cmd(UdpPorts, 3, FALSE, 4, 4, 0, FALSE, {3}) }

InitVrb == \E cmd \in VrbCmds : InitCmd(cmd)

\* memcpy (newpoi, buff, thissize) for any offset in the first mapping and
\* any size up to totsize
VrbCopy ==
    \E k \in 0 .. ringbuffer.totsize - 1, n \in 0 .. ringbuffer.totsize,
       id \in 1 .. MaxPackets :
        /\ newpoi' = k
        /\ p_thissize' = n
        /\ buff' = Datagram(id, n)
        /\ mem' = MemWrite(mem, ringbuffer.totsize, k, Datagram(id, n))
        /\ UNCHANGED <<cfgvars, ringbuffer, cntvars, filevars, consvars, hdlvars,
                       envvars, stopped, region_mutex, stopped_mutex, waitData,
                       waitSpace, producer_running, cancelReq, pcM, stream, pcP,
                       pret, pi, myallsocks, header_lofar>>

SpecVrb == InitVrb /\ [][VrbCopy]_vars

\* --------------------------------------------- the option --Maxfilesize
\* the arguments tried, in halves of a byte: -20.0 .. 20.0 without 0
MaxfilesizeArgs == { h \in (-40) .. 40 : h # 0 }

\* case 'M': sscanf (optarg, "%lf", &maxfilesize); stat_per_splitfile=
\* maxfilesize>0; maxfilesize= abs (maxfilesize); and after the options
\* if (maxfilesize>0) filenumber= 0; else filenumber= -1;
M_OptionM ==
    /\ pcM = "m_getopt"
    /\ \E h \in MaxfilesizeArgs :
          /\ optarg' = h
          /\ stat_per_splitfile' = (h > 0)
          /\ maxfilesize' \in MaxfilesizeStored(h)
    /\ filenumber' = (IF maxfilesize' > 0 THEN 0 ELSE -1)
    /\ pcM' = "m_parsed"
    /\ UNCHANGED <<packlen, do_blocklen, portnos, maxwrite, beamformed_check,
                   PacketSizes, vrbvars, cntvars, outf, bytes_written_thisfile,
                   timestamp_last, files, prodvars, consvars, hdlvars, envvars,
                   stopped, region_mutex, stopped_mutex, waitData, waitSpace,
                   producer_running, cancelReq, stream>>

InitOptionM ==
    \E cmd \in VrbCmds :
        /\ InitMain(cmd, "m_getopt")
        /\ header_lofar = Header(0, 0, 0, 0)

SpecOptionM == InitOptionM /\ [][M_OptionM]_vars

\* ------------------------------------------------------ a run with --check
\* ------------------------------------------- the packet number of a header
\* the headers tried: timestamps around 0 with the unset one (-1), two
\* rounds of 16 sequence numbers, both clocks, with and without error
PacknoHeaders ==
    { Header(t, q, f, e) : t \in (-1) .. 2, q \in 0 .. 31, f \in {0, 1}, e \in {0, 1} }

InitPackno ==
    \E cmd \in CheckCmds, header \in PacknoHeaders :
        /\ InitMain(cmd, "m_join_c")
        /\ header_lofar = header

\* if (beamformed_check) { beamformed_last_packno[i]= beamformed_packno (...);
\* ... }  packs_seen[i]++;   for the packet in buff
P_Beamformed ==
    /\ beamformed_check
    /\ packs_seen[pi] < MaxPackets
    /\ BeamformedCount(pi, header_lofar)
    /\ packs_seen' = [packs_seen EXCEPT ![pi] = @ + 1]
    /\ UNCHANGED <<cfgvars, vrbvars, filevars, prodvars, consvars, hdlvars, envvars,
                   totlen, lasttotlen, packs_dropped, bytes_written,
                   stopped, region_mutex, stopped_mutex, waitData, waitSpace,
                   producer_running, cancelReq, pcM, stream>>

SpecPackno == InitPackno /\ [][P_Beamformed]_vars

\* ------------------------------------ signals delivered to any thread
\* signal (SIGINT, signal_handler) and no signal mask in any thread: the
\* handler of a signal from outside runs on the producer or the consumer
\* thread as well, which stands still meanwhile
DeliverSignalThread(t) ==
    /\ hpc["sig"] = "idle"
    /\ pcM # "done"
    /\ t = "prod" => pcP \notin {"exited", "fatal"}
    /\ t = "cons" => pcC \notin {"exited", "fatal"}
    /\ nsignals < MaxSignals
    /\ nsignals' = nsignals + 1
    /\ \E signum \in DeliveredSignals :
          hsig' = [hsig EXCEPT !["sig"] = signum]
    /\ hpc' = [hpc EXCEPT !["sig"] = "h_stats"]
    /\ sigthread' = t
    /\ UNCHANGED <<cfgvars, vrbvars, cntvars, filevars, prodvars, consvars, hval,
                   arrived, stdin_eof, stopped, region_mutex, stopped_mutex,
                   waitData, waitSpace, producer_running, cancelReq, pcM, stream>>

NextSignalThreads ==
    \/ ThreadRuns("prod") /\ (ProducerCommon \/ ProducerSockets)
    \/ \E c \in {"prod", "sig"} : Handler(c)
    \/ ThreadRuns("cons") /\ Consumer
    \/ Main
    \/ DeliverSignal
    \/ \E t \in {"prod", "cons"} : DeliverSignalThread(t)
    \/ SpuriousWakeupData

SpecSignalThreads == InitUdp /\ [][NextSignalThreads]_vars

InitCheck == \E cmd \in CheckCmds : InitCmd(cmd)

SpecCheck == InitCheck /\ [][NextUdp]_vars

\* -------------------------------------------------------- a run on stdin
StdinProducerThread == ProducerCommon \/ ProducerStdin \/ Handler("prod")

NextStdin ==
    \/ StdinProducerThread
    \/ Consumer
    \/ MainThread
    \/ DeliverSignal
    \/ SpuriousWakeupData
    \/ SpuriousWakeupSpace

InitStdin == \E cmd \in StdinCmds : InitCmd(cmd)

FairSpecStdin ==
    /\ InitStdin
    /\ [][NextStdin]_vars
    /\ WF_vars(StdinProducerThread)
    /\ WF_vars(Consumer)
    /\ WF_vars(MainThread)

\* ================================================================= claims
\* C1: in every reachable state the ring buffer has 0 <= fill <= capacity
\* and tail = (head + fill) mod capacity (head = front, tail = rear).
C1_VrbInvariant ==
    /\ 0 <= ringbuffer.fillsize
    /\ ringbuffer.fillsize <= ringbuffer.totsize
    /\ ringbuffer.rear = (ringbuffer.front + ringbuffer.fillsize) % ringbuffer.totsize

\* committed data that wraps around the end of the buffer, after a release
C1_Witness ==
    /\ ringbuffer.fillsize > 0
    /\ ringbuffer.front > 0
    /\ ringbuffer.rear < ringbuffer.front
    /\ Len(Written) > 0

\* the chunk fwrite() has put into the file and vrb_advance_old has not yet
\* released
InFlight == IF pcC = "c_release" THEN c_thissize ELSE 0

\* C2: the bytes written to the sinks are the bytes committed to the ring
\* buffer minus the bytes still resident in it; between fwrite() and the
\* release of the chunk, the chunk is both in the file and resident.
C2_WrittenIsCommittedMinusFill ==
    Len(Written) - InFlight = Len(stream) - ringbuffer.fillsize

\* bytes written, bytes resident, and no chunk in flight
C2_Witness ==
    /\ InFlight = 0
    /\ Len(Written) > 0
    /\ ringbuffer.fillsize > 0
    /\ Len(files) > 1

\* C3: for a fixed packet length (records stored without size header) the
\* bytes written to the sinks, over all files, are at all times a prefix of
\* the accepted packets in arrival order, and equal to them once main() has
\* joined both threads.
C3_SinkIsAcceptedStream ==
    (packlen > 0 /\ ~do_blocklen) =>
        /\ IsPrefix(Written, stream)
        /\ (pcM = "done" => Written = stream)

\* the offsets in file f at which a stored packet (its first byte) begins
PacketStarts(f) == {o \in 0 .. Len(files[f].data) - 1 : files[f].data[o + 1][2] = 1}

\* C4: with a fixed packet length L > 0 every chunk the consumer writes is a
\* multiple of L bytes, the size of each output file is a multiple of L, and
\* every stored packet starts at a file offset that is a multiple of L.
C4_WholePacketsInFiles ==
    packlen > 0 =>
        /\ (pcC = "c_release" => c_thissize % packlen = 0)
        /\ \A f \in 1 .. Len(files) :
              /\ Len(files[f].data) % packlen = 0
              /\ \A o \in PacketStarts(f) : o % packlen = 0

\* signal_handler() has run for SIGINT, SIGTERM or SIGALRM and has returned
StopSignalHandled ==
    /\ nsignals > 0
    /\ hsig["sig"] \in StopSignals
    /\ hpc["sig"] = "idle"

\* C5: in UDP mode, once SIGINT, SIGTERM or SIGALRM has been handled, the
\* consumer and the producer terminate and main() returns, under fair
\* scheduling of the threads.
C5_StopSignalTerminates ==
    StopSignalHandled ~> (pcC = "exited" /\ pcP = "exited" /\ pcM = "done")

\* C6: in stdin mode, after end-of-file on stdin and once the consumer has
\* drained and exited, the producer exits or is cancelled and main() joins
\* both threads and returns.
C6_StdinEofTerminates ==
    (IsStdin /\ stdin_eof /\ pcC = "exited") ~> (pcP = "exited" /\ pcM = "done")

\* a socket run whose producer is about to reserve space for an accepted
\* packet that does not fit
BufferFullOnArrival ==
    /\ ~IsStdin
    /\ pcP = "p_reserve"
    /\ ringbuffer.fillsize + p_thissize > ringbuffer.totsize

\* the producer's steps on such a packet: it goes on to drop it, and the
\* drop adds one to the port's counter; neither touches the ring buffer
DropSteps ==
    /\ (BufferFullOnArrival /\ pcP' # pcP) =>
          /\ pcP' = "p_drop"
          /\ ringbuffer' = ringbuffer
          /\ mem' = mem
    /\ (~IsStdin /\ pcP = "p_drop" /\ pcP' # pcP) =>
          /\ packs_dropped' = [packs_dropped EXCEPT ![pi] = @ + 1]
          /\ ringbuffer' = ringbuffer
          /\ mem' = mem
          /\ pcP' \in {"p_for", "p_top"}

\* C7: in UDP mode an accepted packet of n bytes that meets fill + n >
\* capacity is dropped: the port's dropped counter grows by exactly one and
\* fill, head, tail and the buffer contents stay as they are; the producer
\* never waits for space.
C7_FullBufferDrops ==
    /\ [](~IsStdin => (pcP \notin {"p_condwait", "p_waiting"} /\ ~waitSpace))
    /\ [][DropSteps]_vars

\* a packet has been dropped in a socket run while data was resident
C7_Witness ==
    /\ ~IsStdin
    /\ packs_dropped[1] = 1
    /\ pcP = "p_top"
    /\ ringbuffer.fillsize > 0

\* C8: in stdin mode no packet is ever dropped, whatever the buffer size,
\* the packet length and the framing (with or without --sizehead).
C8_StdinNeverDrops ==
    IsStdin => (pcP # "p_drop" /\ \A j \in 1 .. nsock : packs_dropped[j] = 0)

\* C9: an idle timeout or a SIGHUP with a sink open sets the stop level to 1
\* only when the level is 0 at that moment; a level of 2 is never replaced
\* by 1, whatever signal is delivered meanwhile.
C9_HangupKeepsNonZeroLevel ==
    [][stopped' = 1 => stopped \in {0, 1}]_vars

\* the handler, run in context c for a socket timeout or a SIGHUP, is at one
\* of its tests of outf and no file is open
HangupSeesNoSink(c) ==
    /\ outf = NULL
    /\ \/ hpc[c] = "h_entry" /\ hsig[c] = -1 /\ ~IsStdin
       \/ hpc[c] = "h_testoutf" /\ hsig[c] = SIGHUP
       \/ hpc[c] = "h_testoutf" /\ hsig[c] = -1 /\ ~IsStdin

\* the handler's step from there: it returns, and the stop level, the files
\* and the threads are as before
NoSinkSteps ==
    \A c \in {"prod", "sig"} :
        (HangupSeesNoSink(c) /\ hpc'[c] # hpc[c]) =>
            /\ hpc'[c] = "idle"
            /\ stopped' = stopped
            /\ outf' = outf
            /\ files' = files
            /\ pcC' = pcC
            /\ pcM' = pcM
            /\ pcP' = (IF c = "prod" THEN pret ELSE pcP)
            /\ pcP' # "exited" \/ pcP = "exited"

\* C10: with no sink open, an idle timeout in UDP mode and a SIGHUP leave
\* the stop level as it is; no file is opened or closed and no thread
\* terminates.
C10_NoSinkNoChange ==
    [][NoSinkSteps]_vars

\* a timeout and a SIGHUP have been handled before any file was opened, and
\* the threads wait for packets
C10_Witness ==
    /\ ~IsStdin
    /\ files = <<>>
    /\ hsig["prod"] = -1 /\ hpc["prod"] = "idle"
    /\ hsig["sig"] = SIGHUP /\ hpc["sig"] = "idle"
    /\ stopped = 0
    /\ pcP = "p_select"
    /\ pcC = "c_waiting"

\* the timeout handler, run by the producer, finds a file open and leaves
\* the stop level at 1
TimeoutWithSink ==
    /\ ~IsStdin
    /\ hsig["prod"] = -1
    /\ hpc["prod"] = "h_signal"
    /\ stopped = 1
    /\ outf # NULL

\* a thread ends only on stop level 2 (the producer also when main cancels
\* it), and the timeout handler of a socket run stores level 1
TimeoutEndsNoThread ==
    ~IsStdin =>
        /\ (pcP # "exited" /\ pcP' = "exited") => (stopped = 2 \/ cancelReq)
        /\ (pcC # "exited" /\ pcC' = "exited") => my_stopped = 2
        /\ (hsig["prod"] = -1 /\ hpc["prod"] = "h_lock" /\ hpc'["prod"] # "h_lock")
              => stopped' = 1

\* a stop signal is ending the run: the stop level is 2, or the consumer
\* has ended on it
RunIsEnding == stopped = 2 \/ pcC = "exited"

Resident ==
    MemRead(mem, ringbuffer.totsize, ringbuffer.front + InFlight,
            ringbuffer.fillsize - InFlight)

\* the consumer closes the file on stop level 1 or -1
CloseOnLevelOne == pcC = "c_fclose" /\ my_stopped \in {1, -1} /\ pcC' # pcC

\* C12: closing a file on stop level 1 or -1 leaves the ring buffer and its
\* contents as they are, and at all times the bytes of all files, in the
\* order of the files, followed by the resident bytes are the bytes
\* committed: what was resident at a close is written, in order, to the
\* files opened later.
C12_CloseLosesNoData ==
    /\ [][CloseOnLevelOne => (ringbuffer' = ringbuffer /\ mem' = mem /\ stream' = stream)]_vars
    /\ [](Written \o Resident = stream)

\* a file has been closed on level 1 with data resident, and a later file
\* holds data
C12_Witness ==
    /\ Len(files) = 2
    /\ files[2].num <= 0
    /\ Len(files[1].data) > 0
    /\ Len(files[2].data) > 0
    /\ ringbuffer.fillsize > 0
    /\ pcC = "c_fclose"
    /\ my_stopped = 1

\* C13: with a maximum file size F > 0 no file holds more than F bytes, and
\* when F is a multiple of the packet length every file that is followed by
\* the next file of its split series holds exactly F bytes.
C13_FilesSplitAtMaxSize ==
    maxfilesize > 0 =>
        /\ \A f \in 1..Len(files) : Len(files[f].data) <= maxfilesize
        /\ (packlen > 0 /\ maxfilesize % packlen = 0) =>
               \A f \in 1..(Len(files) - 1) :
                   files[f + 1].num > 0 => Len(files[f].data) = maxfilesize

\* a file is opened in this step
FileOpened == Len(files') = Len(files) + 1

\* C14: a file opened by a size-based split (the consumer's start_file (0)
\* after a close on level -1) has the timestamp of the file before it and
\* the next sequence number; a file opened after any other close has
\* sequence number 0 when files are numbered.
C14_SplitNumbering ==
    [][FileOpened =>
          LET new == files'[Len(files')] IN
          IF pcC = "c_split"
          THEN /\ Len(files) > 0
               /\ files[Len(files)].num >= 0
               /\ new.ts = files[Len(files)].ts
               /\ new.num = files[Len(files)].num + 1
          ELSE maxfilesize # 0 => new.num = 0]_vars

\* a split series 0, 1 under one timestamp, each file holding data
C14_Witness ==
    /\ Len(files) = 2
    /\ files[1].num = 0 /\ files[2].num = 1
    /\ files[2].ts = files[1].ts
    /\ Len(files[1].data) > 0 /\ Len(files[2].data) > 0

\* statistics are being reported: by signal_handler (progress, timeout,
\* signal) or by final_statistics at a file close or at the end; both print
\* the counters only when totlen is not 0
StatisticsReported ==
    /\ totlen # 0
    /\ \/ \E c \in DOMAIN hpc : hpc[c] = "h_stats"
       \/ pcC = "c_stat" /\ (my_stopped # -1 \/ stat_per_splitfile)

\* C15: with a packet length L > 0, whenever statistics are reported every
\* port has seen = dropped + bytes_written / L.
C15_SeenIsDroppedPlusWritten ==
    (packlen > 0 /\ StatisticsReported) =>
        \A i \in 1..nsock :
            packs_seen[i] = packs_dropped[i] + (bytes_written[i] \div packlen)

\* C16: with the checks for beamformed data, whenever statistics are
\* reported every port has last_packno - first_packno + 1 >= seen.
C16_ExpectedCoversSeen ==
    (beamformed_check /\ StatisticsReported) =>
        \A i \in 1..nsock :
            beamformed_last_packno[i] - beamformed_first_packno[i] + 1 >= packs_seen[i]

\* C17: only whole datagrams are committed: the last byte committed of
\* every packet is the last byte of its datagram, so no truncated copy of a
\* datagram above the cap is in the ring buffer or on its way to a file.
C17_NoTruncatedCopyCommitted ==
    ~IsStdin =>
        \A j \in 1..Len(stream) :
            (j = Len(stream) \/ stream[j + 1][1] # stream[j][1]) => stream[j][3] = 1

\* the address of the other half of the doubled range that shows the byte
\* at address a
OtherHalf(a) == (a + ringbuffer.totsize) % (2 * ringbuffer.totsize)

\* C18: the bytes last written at an offset k below the capacity, n of them
\* with n up to the capacity, are read back at k, and each of them is read
\* identically in the other half of the doubled range; at every address the
\* two halves hold the same contents.
C18_BothHalvesAgree ==
    /\ \A a \in 0 .. 2 * ringbuffer.totsize - 1 :
           MemRead(mem, ringbuffer.totsize, a, 1)
             = MemRead(mem, ringbuffer.totsize, OtherHalf(a), 1)
    /\ newpoi # NULL =>
           /\ MemRead(mem, ringbuffer.totsize, newpoi, p_thissize) = buff
           /\ \A j \in 1 .. p_thissize :
                  MemRead(mem, ringbuffer.totsize, OtherHalf(newpoi + j - 1), 1)
                    = << buff[j] >>

\* a write of totsize bytes that starts at the last offset of the first
\* mapping and so runs through the second
C18_Witness ==
    /\ newpoi = ringbuffer.totsize - 1
    /\ p_thissize = ringbuffer.totsize
    /\ MemRead(mem, ringbuffer.totsize, 0, 1) = << buff[2] >>
    /\ MemRead(mem, ringbuffer.totsize, newpoi, 1) = << buff[1] >>

\* the producer finds that the received size differs from the packet length
WrongLengthStep ==
    /\ pcP = "p_accept"
    /\ pcP' # pcP
    /\ packlen # 0
    /\ p_thissize # packlen

\* the index a datagram's last byte has in a stored record of the packet
\* length
LastIndex == packlen + (IF do_blocklen THEN 2 ELSE 0)

\* C19: with a packet length L, the step that finds a received size other
\* than L changes neither the ring buffer and its contents nor any counter
\* (seen, dropped, bytes_written, good, first and last packet number, totlen)
\* nor any file, and a datagram whose last byte is in the ring buffer or in
\* a file is one of L bytes.
C19_WrongLengthDiscarded ==
    /\ [][WrongLengthStep =>
             UNCHANGED <<ringbuffer, mem, cntvars, filevars, stream>>]_vars
    /\ [](packlen # 0 =>
             /\ \A j \in 1 .. Len(stream) : stream[j][3] = 1 => stream[j][2] = LastIndex
             /\ \A j \in 1 .. Len(Written) : Written[j][3] = 1 => Written[j][2] = LastIndex
             /\ \A a \in DOMAIN mem : mem[a][3] = 1 => mem[a][2] = LastIndex)

\* a datagram of 2 bytes has been received and discarded with the packet
\* length 3: nothing is counted or stored, and the next one is accepted
C19_Witness ==
    /\ beamformed_check
    /\ arrived = 2
    /\ packs_seen[1] = 1
    /\ beamformed_good_packs[1] = 1
    /\ packs_dropped[1] = 0
    /\ Len(stream) = packlen
    /\ stream[1][1] = 2
    /\ pcP = "p_top"

\* the bytes are a sequence of whole records: a size of two bytes (low byte
\* first) followed by that many payload bytes of the same packet
RECURSIVE RecordsOk(_)
RecordsOk(bytes) ==
    IF bytes = <<>> THEN TRUE
    ELSE /\ Len(bytes) >= 2
         /\ bytes[1][2] = 1
         /\ bytes[2][2] = 2
         /\ LET len16 == bytes[1][3] + 256 * bytes[2][3] IN
            /\ Len(bytes) >= 2 + len16
            /\ \A k \in 1 .. len16 :
                   bytes[2 + k][1] = bytes[1][1] /\ bytes[2 + k][2] = 2 + k
            /\ RecordsOk(SubSeq(bytes, 3 + len16, Len(bytes)))

\* C20: with --sizehead the bytes written are the records of the accepted
\* packets in order (a prefix of the committed records), and when the
\* program has ended they are whole records and all of them.
C20_SizeheadRecordsWhole ==
    do_blocklen =>
        /\ IsPrefix(Written, stream)
        /\ RecordsOk(stream)
        /\ pcM = "done" => (RecordsOk(Written) /\ Written = stream)

\* bytes are written to a file in this step
FileWritten ==
    /\ Len(files') = Len(files)
    /\ files' # files

\* C21: a file is opened only while no file is open, bytes are written only
\* to the file that is open, and the consumer ends with no file open: so at
\* most one file is open at any time.
C21_OneSinkOpen ==
    [][/\ FileOpened => (outf = NULL /\ outf' = Len(files'))
       /\ FileWritten =>
             /\ outf # NULL
             /\ outf' = outf
             /\ \A f \in 1 .. Len(files) : f # outf => files'[f] = files[f]
       /\ (pcC # "exited" /\ pcC' = "exited") => outf' = NULL]_vars

\* the consumer has ended after it wrote to two files and closed the last
C21_Witness ==
    /\ pcC = "exited"
    /\ outf = NULL
    /\ Len(files) = 2
    /\ Len(files[1].data) > 0
    /\ Len(files[2].data) > 0

\* C22: once --Maxfilesize v is parsed, the split threshold is |v| bytes and
\* files are numbered.
C22_ThresholdIsMagnitude ==
    pcM = "m_parsed" =>
        /\ 2 * maxfilesize = Abs(optarg)
        /\ filenumber = 0

\* the consumer thread ends in this step
ConsumerEnds == pcC # "exited" /\ pcC' = "exited"

\* C23: the consumer ends only in an iteration whose snapshot of the stop
\* level is 2 and whose peek found the ring buffer empty.
C23_ConsumerEndsOnTwoAndEmpty ==
    [][ConsumerEnds =>
          /\ my_stopped' = 2
          /\ old_stopped = 2
          /\ oldpoi = NULL]_vars

\* the consumer has ended on snapshot 2 after an empty peek, with all that
\* was committed written
C23_Witness ==
    /\ pcC = "exited"
    /\ my_stopped = 2
    /\ oldpoi = NULL
    /\ Len(stream) > 0
    /\ Written = stream

\* the consumer's step at   if (stopped==old_stopped)   under stopped_mutex
ConsumerResets == pcC = "c_reset" /\ pcC' # pcC

\* the consumer's reset has just left a stop level that a handler stored
\* after the snapshot
LevelKeptByReset(level) ==
    /\ pcC = "c_reset_unlock"
    /\ stopped = level
    /\ old_stopped # level

\* C24: the consumer's reset sets the stop level to 0 exactly if it still is
\* the snapshot and is not 2, and else leaves it; a level it leaves is taken
\* by a later snapshot of the consumer (level 1 possibly raised to 2 before).
C24_ResetKeepsChangedLevel ==
    /\ [][ConsumerResets =>
             stopped' = (IF stopped = old_stopped /\ stopped # 2 THEN 0 ELSE stopped)]_vars
    /\ LevelKeptByReset(2) ~> (pcC = "c_snap_unlock" /\ my_stopped = 2)
    /\ LevelKeptByReset(1) ~> (pcC = "c_snap_unlock" /\ my_stopped \in {1, 2})

\* the producer has reserved room for a packet and has not yet committed it
BetweenReserveAndCommit == pcP \in {"p_copy", "p_commit"}

\* the consumer is about to enter a critical section of region_mutex
ConsumerAtCriticalSection == pcC \in {"c_lock", "c_waiting", "c_size", "c_release"}

\* C25: the ring buffer's fill, head and tail change only in steps that
\* take the free region mutex, and while the producer is between reserve
\* and commit of a packet it is inside one critical section: the consumer
\* enters none and the ring buffer stays as the reserve saw it.
C25_OneCriticalSectionPerPacket ==
    /\ [][ringbuffer' # ringbuffer => region_mutex = "free"]_vars
    /\ [][(BetweenReserveAndCommit /\ pcP' = pcP) =>
             /\ ringbuffer' = ringbuffer
             /\ ConsumerAtCriticalSection => pcC' = pcC]_vars

\* the bytes of the backing file behind n addresses from poi
Range(poi, n) == { PhysAddr(poi + k, ringbuffer.totsize) : k \in 0 .. n - 1 }

\* the bytes the producer copies a packet into, between reserve and commit
ProducerRange ==
    IF BetweenReserveAndCommit THEN Range(newpoi, p_thissize) ELSE {}

\* the bytes the consumer writes to the file, between peek and release
ConsumerRange ==
    IF pcC = "c_write" THEN Range(oldpoi, ChunkSize(c_thissize))
    ELSE IF pcC = "c_release" THEN Range(oldpoi, c_thissize)
    ELSE {}

\* the bytes committed and not released
CommittedRange == Range(ringbuffer.front, ringbuffer.fillsize)

\* C26: the bytes the producer is copying into never overlap the bytes the
\* consumer is writing to the file, the consumer's bytes are all committed
\* and not released, and the producer's are not.
C26_RangesDisjoint ==
    /\ ProducerRange \cap ConsumerRange = {}
    /\ ConsumerRange \subseteq CommittedRange
    /\ ProducerRange \cap CommittedRange = {}

\* the producer copies a packet while the consumer writes another to the file
C26_Witness ==
    /\ pcP = "p_commit"
    /\ pcC = "c_release"
    /\ ProducerRange # {}
    /\ ConsumerRange # {}
    /\ newpoi + p_thissize > ringbuffer.totsize

\* the producer's next step is pselect, recvfrom or fread
ProducerAtBlockingCall ==
    \/ pcP \in {"p_select", "p_fread"}
    \/ pcP = "p_for" /\ ~IsStdin

\* the consumer's next step is fwrite, the opening or the closing of a file
ConsumerAtBlockingCall == pcC \in {"c_write", "c_open", "c_fclose", "c_split"}

\* C27: the producer does not hold region_mutex when it calls pselect,
\* recvfrom or fread, and the consumer does not hold it when it calls fwrite
\* or opens or closes a file.
C27_NoMutexInBlockingCall ==
    /\ ProducerAtBlockingCall => region_mutex # "prod"
    /\ ConsumerAtBlockingCall => region_mutex # "cons"

\* the producer reads stdin after it has waited for space, while the consumer
\* writes to the file
C27_Witness ==
    /\ pcP = "p_fread"
    /\ pcC = "c_write"
    /\ outf # NULL
    /\ region_mutex = "free"
    /\ ringbuffer.fillsize + packlen > ringbuffer.totsize - packlen

\* n bytes from poi lie in the doubled range, poi being in its first half
InDoubledRange(poi, n) ==
    /\ 0 <= poi /\ poi < ringbuffer.totsize
    /\ 0 <= n /\ n <= ringbuffer.totsize
    /\ poi + n <= 2 * ringbuffer.totsize

\* C28: the producer's copy of a packet to the reserved place and the
\* consumer's write of a chunk from the oldest place stay inside the doubled
\* range: both places are below the capacity, the packet is no longer than
\* the capacity, and the chunk no longer than the fill level, which is no
\* more than the capacity.
C28_AccessInDoubledRange ==
    /\ pcP = "p_copy" =>
          /\ InDoubledRange(newpoi, p_thissize)
          /\ newpoi = ringbuffer.rear
    /\ pcC = "c_write" =>
          /\ InDoubledRange(oldpoi, ChunkSize(c_thissize))
          /\ oldpoi = ringbuffer.front
          /\ ChunkSize(c_thissize) <= ringbuffer.fillsize
          /\ ringbuffer.fillsize <= ringbuffer.totsize

\* a copy that runs past the end of the first half, beside a write of a
\* chunk from the middle of the buffer
C28_Witness ==
    /\ pcP = "p_copy"
    /\ newpoi + p_thissize > ringbuffer.totsize
    /\ pcC = "c_write"
    /\ oldpoi > 0
    /\ ChunkSize(c_thissize) > 0

\* the packet number with the sequence divided by 16 on its own
SeparatePackno(header) ==
    CDiv(CDiv(header.timestamp * 1000000 * (160 + 40 * header.is200mhz) + 512,
              1024), 16)
    + CDiv(header.sequence, 16)

\* C29: the packet number computed from a header is
\* (timestamp * 1000000 * (160 + 40 * is200mhz) + 512) / 1024 / 16
\* + sequence / 16 in integer division: the sequence is divided by 16
\* separately from the timestamp term.
C29_SequenceDividedSeparately ==
    packs_seen[pi] > 0 =>
        beamformed_last_packno[pi] = SeparatePackno(header_lofar)

\* C30: once the stop level is 2 it stays 2: no signal handler, no timeout
\* in the producer and no reset by the consumer changes it to 0 or 1.
C30_LevelTwoIsFinal ==
    [][stopped = 2 => stopped' = 2]_vars

\* C31: when main() has joined both threads the ring buffer is empty, so
\* that every byte committed is in a file: no packet is committed after the
\* consumer has seen stop level 2 with the buffer empty.
C31_EmptyAtOrderlyExit ==
    pcM = "done" =>
        /\ ringbuffer.fillsize = 0
        /\ Len(Written) = Len(stream)

\* the handler of a signal from outside is at its pthread_mutex_lock of
\* stopped_mutex, which the thread it runs on holds
HandlerBlockedByOwnThread ==
    /\ hpc["sig"] = "h_lock"
    /\ stopped_mutex = sigthread

\* C32: a signal handler never waits for stopped_mutex while the thread it
\* was delivered to holds that mutex, so its lock does not block forever.
C32_HandlerLockReturns == ~HandlerBlockedByOwnThread

\* C33: whenever the consumer has found data in the buffer, the chunk it
\* writes to the file and releases in that round has at least one byte.
C33_ChunkAtLeastOneByte ==
    pcC = "c_release" => c_thissize >= 1

\* the producer is blocked in pthread_cond_wait on space_available
ProducerBlockedOnSpace == pcP = "p_waiting" /\ waitSpace

\* the consumer is blocked in pthread_cond_wait on data_available
ConsumerBlockedOnData == pcC = "c_waiting" /\ waitData

\* the consumer releases the chunk it has written
ConsumerReleases == pcC = "c_release" /\ pcC' = "c_lock"

\* C34: reading stdin, the producer is never blocked on space_available
\* while the consumer is blocked on data_available or has ended, and a
\* producer blocked on space_available is woken by the consumer's next
\* release.
C34_StdinNoDeadlock ==
    /\ []((IsStdin /\ ProducerBlockedOnSpace) =>
             (~ConsumerBlockedOnData /\ pcC # "exited"))
    /\ [][(IsStdin /\ ConsumerReleases) => ~ProducerBlockedOnSpace']_vars

\* the producer, blocked since the buffer was full, has been woken and the
\* consumer has just released what it wrote: the next block fits
C34_Witness ==
    /\ IsStdin
    /\ pcP = "p_waiting"
    /\ ~waitSpace
    /\ pcC = "c_lock"
    /\ Written # <<>>
    /\ vrb_poi_new(ringbuffer, packlen) # NULL

=============================================================================
